---- MODULE Spec2Model ----
(***************************************************************************)
(* AskHogwarts: the PDF-to-chunks pipeline (app/services/pdf_processor.py) *)
(* and the text normaliser (app/utils/text_processing.py).                 *)
(*                                                                         *)
(* Text is a sequence of one-character strings.  The splitter built in     *)
(* PDFProcessor.__init__ is langchain's RecursiveCharacterTextSplitter     *)
(* with the arguments the source passes (chunk_size, chunk_overlap,        *)
(* separators) and the library defaults for everything else                *)
(* (keep_separator=True, strip_whitespace=True, length_function=len,       *)
(* is_separator_regex=False).                                              *)
(***************************************************************************)
EXTENDS Integers, Sequences, FiniteSets, TLC

(***************************************************************************)
(* Bounds of the model.                                                    *)
(***************************************************************************)
MaxChunkSize == 3
MaxTextLen == 4
MaxPages == 2

(***************************************************************************)
(* Characters and strings.                                                 *)
(***************************************************************************)
Whitespace == {" ", "\n", "\t", "\r", "\f"}

IsSpace(c) == c \in Whitespace

\* str.lower() on one character of the model's alphabet
LowerChar(c) == IF c = "A" THEN "a" ELSE IF c = "B" THEN "b" ELSE c

Lower(s) == [i \in 1..Len(s) |-> LowerChar(s[i])]

RECURSIVE LStrip(_)
LStrip(s) == IF s # <<>> /\ IsSpace(Head(s)) THEN LStrip(Tail(s)) ELSE s

RECURSIVE RStrip(_)
RStrip(s) ==
    IF s # <<>> /\ IsSpace(s[Len(s)]) THEN RStrip(SubSeq(s, 1, Len(s) - 1)) ELSE s

\* str.strip()
Strip(s) == RStrip(LStrip(s))

\* text[i:] starts with sub (positions from 1)
MatchAt(text, sub, i) ==
    /\ i + Len(sub) - 1 <= Len(text)
    /\ \A k \in 1..Len(sub) : text[i + k - 1] = sub[k]

\* sub in text
Contains(text, sub) == \E i \in 1..(Len(text) + 1) : MatchAt(text, sub, i)

RECURSIVE SumLen(_)
SumLen(ss) == IF ss = <<>> THEN 0 ELSE Len(Head(ss)) + SumLen(Tail(ss))

\* sep.join(parts)
RECURSIVE Join(_, _)
Join(parts, sep) ==
    IF parts = <<>> THEN <<>>
    ELSE IF Len(parts) = 1 THEN parts[1]
    ELSE parts[1] \o sep \o Join(Tail(parts), sep)

\* len(s.split()): the number of maximal runs of non-whitespace characters
WordCount(s) ==
    Cardinality({i \in 1..Len(s) :
        ~IsSpace(s[i]) /\ (i = 1 \/ IsSpace(s[i - 1]))})

(***************************************************************************)
(* RecursiveCharacterTextSplitter, as configured by PDFProcessor.__init__. *)
(***************************************************************************)
\* the start positions of the non-overlapping matches of sep in text,
\* scanning left to right from position i (re.split on a literal separator)
RECURSIVE MatchStarts(_, _, _)
MatchStarts(text, sep, i) ==
    IF i + Len(sep) - 1 > Len(text) THEN <<>>
    ELSE IF MatchAt(text, sep, i)
         THEN <<i>> \o MatchStarts(text, sep, i + Len(sep))
         ELSE MatchStarts(text, sep, i + 1)

\* _split_text_with_regex(text, separator, keep_separator=True): the text
\* before the first separator, then each separator with the text that
\* follows it; the empty separator splits into characters; empty pieces
\* are dropped
SplitWithSeparator(text, sep) ==
    LET pieces ==
            IF sep = <<>> THEN [i \in 1..Len(text) |-> <<text[i]>>]
            ELSE LET st == MatchStarts(text, sep, 1)
                     n == Len(st)
                     endOf(k) == IF k = n THEN Len(text) ELSE st[k + 1] - 1
                 IN  IF n = 0 THEN <<text>>
                     ELSE <<SubSeq(text, 1, st[1] - 1)>> \o
                          [k \in 1..n |-> SubSeq(text, st[k], endOf(k))]
    IN  SelectSeq(pieces, LAMBDA p : p # <<>>)

\* _join_docs: the joined pieces stripped; a blank result is no document
JoinDocs(docs, separator) ==
    LET text == Strip(Join(docs, separator))
    IN  IF text = <<>> THEN <<>> ELSE <<text>>

\* the while loop left out: nothing is dropped from current_doc
PopFrontNever(cfg, current_doc, total, dlen, seplen) ==
    [current_doc |-> current_doc, total |-> total]

\* the inner while loop of _merge_splits: drop pieces from the front of
\* current_doc while it is longer than the overlap, or too long to take d
RECURSIVE PopFront(_, _, _, _, _)
PopFront(cfg, current_doc, total, dlen, seplen) ==
    IF \/ total > cfg.chunk_overlap
       \/ /\ total + dlen + (IF Len(current_doc) > 0 THEN seplen ELSE 0)
                > cfg.chunk_size
          /\ total > 0
    THEN PopFront(cfg, Tail(current_doc),
                  total - (Len(Head(current_doc))
                           + (IF Len(current_doc) > 1 THEN seplen ELSE 0)),
                  dlen, seplen)
    ELSE [current_doc |-> current_doc, total |-> total]

\* the for loop of _merge_splits over splits[k..]
RECURSIVE MergeLoop(_, _, _, _, _, _, _)
MergeLoop(cfg, splits, separator, k, docs, current_doc, total) ==
    IF k > Len(splits) THEN docs \o JoinDocs(current_doc, separator)
    ELSE
      LET d == splits[k]
          seplen == Len(separator)
          over == total + Len(d) + (IF Len(current_doc) > 0 THEN seplen ELSE 0)
                      > cfg.chunk_size
          emit == over /\ Len(current_doc) > 0
          docs1 == IF emit THEN docs \o JoinDocs(current_doc, separator) ELSE docs
          kept == IF emit THEN PopFront(cfg, current_doc, total, Len(d), seplen)
                  ELSE [current_doc |-> current_doc, total |-> total]
          cur1 == Append(kept.current_doc, d)
      IN  MergeLoop(cfg, splits, separator, k + 1, docs1, cur1,
                    kept.total + Len(d) + (IF Len(cur1) > 1 THEN seplen ELSE 0))

\* the document joined after the loop is forgotten
MergeSplitsNoTail(cfg, splits, separator) ==
    LET docs == MergeLoop(cfg, splits, separator, 1, <<>>, <<>>, 0)
    IN  SubSeq(docs, 1, Len(docs) - 1)

MergeSplits(cfg, splits, separator) ==
    MergeLoop(cfg, splits, separator, 1, <<>>, <<>>, 0)

\* the separator _split_text picks: the first one that is empty or occurs
\* in the text, else the last of the list; 0 stands for "none matched"
PickSeparator(text, separators) ==
    LET hits == {i \in 1..Len(separators) :
                    separators[i] = <<>> \/ Contains(text, separators[i])}
    IN  IF hits = {} THEN 0 ELSE CHOOSE i \in hits : \A j \in hits : i <= j

RECURSIVE SplitText(_, _, _)
RECURSIVE SplitLoop(_, _, _, _, _, _)
\* the for loop of _split_text over splits[k..]
SplitLoop(cfg, splits, new_separators, k, good_splits, final_chunks) ==
    IF k > Len(splits)
    THEN IF good_splits # <<>>
         THEN final_chunks \o MergeSplits(cfg, good_splits, <<>>)
         ELSE final_chunks
    ELSE
      LET s == splits[k]
      IN  IF Len(s) < cfg.chunk_size
          THEN SplitLoop(cfg, splits, new_separators, k + 1,
                         Append(good_splits, s), final_chunks)
          ELSE
            LET flushed == IF good_splits # <<>>
                           THEN final_chunks \o MergeSplits(cfg, good_splits, <<>>)
                           ELSE final_chunks
                deeper == IF new_separators = <<>> THEN <<s>>
                          ELSE SplitText(cfg, s, new_separators)
            IN  SplitLoop(cfg, splits, new_separators, k + 1, <<>>,
                          flushed \o deeper)

\* RecursiveCharacterTextSplitter._split_text
SplitText(cfg, text, separators) ==
    LET p == PickSeparator(text, separators)
        separator == IF p = 0 THEN separators[Len(separators)] ELSE separators[p]
        new_separators ==
            IF p = 0 \/ separator = <<>> THEN <<>>
            ELSE SubSeq(separators, p + 1, Len(separators))
    IN  SplitLoop(cfg, SplitWithSeparator(text, separator), new_separators,
                  1, <<>>, <<>>)

\* text_splitter.create_documents([all_text]): one document per chunk
CreateDocuments(cfg, all_text) == SplitText(cfg, all_text, cfg.separators)

(***************************************************************************)
(* Values as Python sees them: the type decides what json.dump does.       *)
(***************************************************************************)
PyStr(v) == [type |-> "str", val |-> v]
PyInt(n) == [type |-> "int", val |-> n]
PyBytes(v) == [type |-> "bytes", val |-> v]
\* a pdfminer object (PSLiteral, PDFObjRef): neither bytes nor a JSON type
PyObject(v) == [type |-> "object", val |-> v]
\* a / b of two ints, b # 0: a float, kept as the fraction
PyFloat(a, b) == [type |-> "float", val |-> <<a, b>>]

None == [type |-> "none"]

(***************************************************************************)
(* The file system: regular files by path, and the directories that exist. *)
(***************************************************************************)
PdfPath == "lekl101.pdf"
MissingPath == "nonexistent.pdf"
OutputPath == "out/processed_pdf.json"
InvalidOutputPath == "/invalid/path/output.json"

Paths == {PdfPath, MissingPath, OutputPath, InvalidOutputPath}

Parent(path) ==
    IF path = OutputPath THEN "out"
    ELSE IF path = InvalidOutputPath THEN "/invalid/path"
    ELSE "."

\* directories this process may create
Creatable == {"out"}

Absent == [kind |-> "absent"]

\* page.page_content of the pages of a PDF: letters and blanks
PageAlphabet == {"a", "B", " "}

RECURSIVE TextsUpTo(_)
TextsUpTo(n) ==
    IF n = 0 THEN {<<>>}
    ELSE LET shorter == TextsUpTo(n - 1)
         IN  shorter \cup {Append(t, c) : t \in {u \in shorter : Len(u) = n - 1},
                                          c \in PageAlphabet}

\* len("\n".join(pages))
JoinedLen(ps) == SumLen(ps) + (IF Len(ps) > 0 THEN Len(ps) - 1 ELSE 0)

RECURSIVE PageSeqs(_, _)
\* the page lists of at most n pages whose joined text has at most m characters
PageSeqs(n, m) ==
    IF n = 0 THEN {<<>>}
    ELSE LET shorter == PageSeqs(n - 1, m)
             longest == {ps \in shorter : Len(ps) = n - 1}
             fits == {x \in longest \X TextsUpTo(m) :
                        JoinedLen(Append(x[1], x[2])) <= m}
         IN  shorter \cup {Append(x[1], x[2]) : x \in fits}

\* the info dictionaries of the documents: key as pdfminer hands it over
\* (bytes, or str whose .decode raises), name, value
InfoEntry(kt, k, v) == [key_type |-> kt, key |-> k, value |-> v]

NoInfo == <<>>

InfoDicts ==
    { NoInfo,
      <<InfoEntry("bytes", "CreationDate", PyBytes("D:2024")),
        InfoEntry("bytes", "Title", PyBytes("Lesson"))>>,
      <<InfoEntry("str", "Title", PyBytes("Lesson"))>>,
      <<InfoEntry("bytes", "ModDate", PyStr("D:2025")),
        InfoEntry("bytes", "Pages", PyInt(2))>>,
      <<InfoEntry("bytes", "Trapped", PyObject("/False"))>> }

Pdf(info, ps) ==
    [kind |-> "pdf", fails_at |-> "nowhere", message |-> "", info |-> info,
     pages |-> ps, size |-> 1 + JoinedLen(ps)]

\* files whose structure cannot be parsed: by pdfminer (metadata) or by the
\* page loader, with the message of the exception
CorruptPdfs ==
    { [kind |-> "pdf", fails_at |-> "metadata", message |-> "No /Root object",
       info |-> NoInfo, pages |-> <<>>, size |-> 1],
      [kind |-> "pdf", fails_at |-> "load", message |-> "EOF marker not found",
       info |-> NoInfo, pages |-> <<>>, size |-> 1] }

\* documents that differ in their text
TextDocuments == {Pdf(NoInfo, ps) : ps \in PageSeqs(MaxPages, MaxTextLen)}

\* documents that differ in their info dictionary
InfoDocuments ==
    {Pdf(info, ps) : info \in InfoDicts,
                     ps \in {<<<<"a", " ", "B">>>>, <<<<"a">>, <<"B", "a">>>>, <<>>}}

(***************************************************************************)
(* PDFProcessor.__init__                                                   *)
(***************************************************************************)
DefaultSeparators == <<<<"\n", "\n">>, <<"\n">>, <<" ">>, <<>>>>

\* the separator lists a caller passes: the default, the empty string
\* alone, and one that does not end in the empty string
SeparatorLists == {DefaultSeparators, <<<<>>>>, <<<<" ">>>>}

NoProcessor == [none |-> TRUE]

\* TextSplitter.__init__ refuses an overlap larger than the chunk size
SplitterRejects(chunk_size, chunk_overlap) == chunk_overlap > chunk_size

NewProcessor(chunk_size, chunk_overlap, separators) ==
    [chunk_size |-> chunk_size, chunk_overlap |-> chunk_overlap,
     separators |-> separators]

(***************************************************************************)
(* PDFProcessor.save_to_json                                               *)
(***************************************************************************)
RequiredKeys ==
    {"metadata", "chunks", "document_info", "people_mentioned", "processing_info"}

\* the values json.dump can write
Serializable(v) == v.type \in {"str", "int", "float", "dict"}

\* a value as JSON text holds it: a string, a number literal with or
\* without a fraction, an object
JsonValue(v) ==
    CASE v.type = "str" -> [json |-> "string", text |-> v.val]
      [] v.type = "int" -> [json |-> "integer", text |-> v.val]
      [] v.type = "float" -> [json |-> "real", text |-> v.val]
      [] OTHER -> [json |-> "object", text |-> v.val]

\* json.load of one value
PyValue(j) ==
    CASE j.json = "string" -> PyStr(j.text)
      [] j.json = "integer" -> PyInt(j.text)
      [] j.json = "real" -> [type |-> "float", val |-> j.text]
      [] OTHER -> [type |-> "dict", val |-> j.text]

\* the values of the data whose type comes from the PDF
TypedValues(data) ==
    (IF "metadata" \in DOMAIN data
     THEN {data.metadata[k] : k \in DOMAIN data.metadata} ELSE {})
    \cup
    (IF "document_info" \in DOMAIN data
     THEN {data.document_info.created_date, data.document_info.modified_date}
     ELSE {})

\* json.dump(data, f): the sections process_pdf builds from str, int and
\* list alone are written as they are; the values that come from the PDF
\* are written by their type
JsonDump(data) ==
    [k \in DOMAIN data |->
        CASE k = "metadata" ->
                [m \in DOMAIN data.metadata |-> JsonValue(data.metadata[m])]
          [] k = "document_info" ->
                [data.document_info EXCEPT
                    !.created_date = JsonValue(@), !.modified_date = JsonValue(@)]
          [] OTHER -> data[k]]

\* json.load(f)
JsonLoad(text) ==
    [k \in DOMAIN text |->
        CASE k = "metadata" ->
                [m \in DOMAIN text.metadata |-> PyValue(text.metadata[m])]
          [] k = "document_info" ->
                [text.document_info EXCEPT
                    !.created_date = PyValue(@), !.modified_date = PyValue(@)]
          [] OTHER -> text[k]]

JsonFile(text) == [kind |-> "json", text |-> text]

\* what open(output_path, 'w') leaves when json.dump raises half-way
PartialFile == [kind |-> "partial"]

\* the keys checked only after the file was written
SaveOutcomeWriteFirst(data, output_path, files, directories) ==
    IF Parent(output_path) \notin directories \cup Creatable
    THEN [fs |-> files, dirs |-> directories, raised |-> "OSError"]
    ELSE LET made == directories \cup {Parent(output_path)}
         IN  IF \E v \in TypedValues(data) : ~Serializable(v)
             THEN [fs |-> [files EXCEPT ![output_path] = PartialFile],
                   dirs |-> made, raised |-> "TypeError"]
             ELSE [fs |-> [files EXCEPT ![output_path] = JsonFile(JsonDump(data))],
                   dirs |-> made,
                   raised |-> IF RequiredKeys \subseteq DOMAIN data
                              THEN "none" ELSE "ValueError"]

\* save_to_json(data, output_path) on the files and directories given:
\* the files and directories after it, and the exception it raised
SaveOutcome(data, output_path, files, directories) ==
    IF Parent(output_path) \notin directories \cup Creatable
    THEN [fs |-> files, dirs |-> directories, raised |-> "OSError"]
    ELSE LET made == directories \cup {Parent(output_path)}
         IN  IF ~(RequiredKeys \subseteq DOMAIN data)
             THEN [fs |-> files, dirs |-> made, raised |-> "ValueError"]
             ELSE IF \E v \in TypedValues(data) : ~Serializable(v)
             THEN [fs |-> [files EXCEPT ![output_path] = PartialFile],
                   dirs |-> made, raised |-> "TypeError"]
             ELSE [fs |-> [files EXCEPT ![output_path] = JsonFile(JsonDump(data))],
                   dirs |-> made, raised |-> "none"]

NoSave == [called |-> FALSE]

(***************************************************************************)
(* app/utils/text_processing.py: clean_text                                *)
(***************************************************************************)
\* \w and [a-z] on the model's alphabet
IsWord(c) == c \in {"a", "b", "c", "A", "B", "0"}
IsLowerLetter(c) == c \in {"a", "b", "c"}

RECURSIVE CollapseWhitespace(_)
\* re.sub(r'\s+', ' ', text)
CollapseWhitespace(t) ==
    IF t = <<>> THEN <<>>
    ELSE IF IsSpace(Head(t))
         THEN <<" ">> \o CollapseWhitespace(LStrip(t))
         ELSE <<Head(t)>> \o CollapseWhitespace(Tail(t))

\* the length of the run of \w characters of t from position i on
RECURSIVE WordRun(_, _)
WordRun(t, i) == IF i <= Len(t) /\ IsWord(t[i]) THEN 1 + WordRun(t, i + 1) ELSE 0

RECURSIVE JoinLineHyphens(_, _)
\* re.sub(r'(\w+)-\n(\w+)', r'\1\2', text) from position i on: the matches
\* are found left to right and do not overlap
JoinLineHyphens(t, i) ==
    LET hits == {p \in (i + 1)..(Len(t) - 2) :
                    /\ IsWord(t[p - 1]) /\ t[p] = "-"
                    /\ t[p + 1] = "\n" /\ IsWord(t[p + 2])}
    IN  IF hits = {} THEN SubSeq(t, i, Len(t))
        ELSE LET p == CHOOSE q \in hits : \A r \in hits : q <= r
                 after == p + 2 + WordRun(t, p + 2)
             IN  SubSeq(t, i, p - 1) \o SubSeq(t, p + 2, after - 1)
                 \o JoinLineHyphens(t, after)

RECURSIVE JoinSpaceHyphens(_, _)
\* re.sub(r'([a-z])- ([a-z])', r'\1\2', text) from position i on
JoinSpaceHyphens(t, i) ==
    LET hits == {p \in i..(Len(t) - 3) :
                    /\ IsLowerLetter(t[p]) /\ t[p + 1] = "-"
                    /\ t[p + 2] = " " /\ IsLowerLetter(t[p + 3])}
    IN  IF hits = {} THEN SubSeq(t, i, Len(t))
        ELSE LET p == CHOOSE q \in hits : \A r \in hits : q <= r
             IN  SubSeq(t, i, p) \o <<t[p + 3]>> \o JoinSpaceHyphens(t, p + 4)

\* re.sub(r'\f', ' ', text)
ReplaceFormFeeds(t) == [i \in 1..Len(t) |-> IF t[i] = "\f" THEN " " ELSE t[i]]

\* the length of the run of \s characters of t from position i on
RECURSIVE SpaceRun(_, _)
SpaceRun(t, i) == IF i <= Len(t) /\ IsSpace(t[i]) THEN 1 + SpaceRun(t, i + 1) ELSE 0

RECURSIVE CollapseBlankLines(_, _)
\* re.sub(r'\n\s*\n', '\n', text) from position i on: a line break, the
\* longest whitespace after it that ends in a line break
CollapseBlankLines(t, i) ==
    LET lastBreak(p) ==
            LET ends == {q \in (p + 1)..(p + SpaceRun(t, p) - 1) : t[q] = "\n"}
            IN  IF ends = {} THEN 0 ELSE CHOOSE q \in ends : \A r \in ends : r <= q
        hits == {p \in i..Len(t) : t[p] = "\n" /\ lastBreak(p) # 0}
    IN  IF hits = {} THEN SubSeq(t, i, Len(t))
        ELSE LET p == CHOOSE q \in hits : \A r \in hits : q <= r
             IN  SubSeq(t, i, p) \o CollapseBlankLines(t, lastBreak(p) + 1)

clean_text(text) ==
    LET t1 == CollapseWhitespace(text)
        t2 == JoinLineHyphens(t1, 1)
        t3 == JoinSpaceHyphens(t2, 1)
        t4 == ReplaceFormFeeds(t3)
        t5 == CollapseBlankLines(t4, 1)
    IN  Strip(t5)

MaxCleanLen == 7

\* the characters of the raw texts: a lowercase letter, another word
\* character, the hyphen, a blank, a line break
CleanAlphabet == {"a", "A", "-", " ", "\n"}

RECURSIVE RawTexts(_)
RawTexts(n) ==
    IF n = 0 THEN {<<>>}
    ELSE LET shorter == RawTexts(n - 1)
         IN  shorter \cup {Append(t, c) : t \in {u \in shorter : Len(u) = n - 1},
                                          c \in CleanAlphabet}

(***************************************************************************)
(* The vector store and the upload routes: what they work on.              *)
(***************************************************************************)
\* the documents whose chunks are upserted
DocumentNames == {"A", "B"}

\* upsert_documents has not been called for this document
NoUpsert == [pc |-> "idle"]

\* the identifiers uuid4 hands out
DocIds == {"id1", "id2", "id3"}

VARIABLES
    processor,          \* the PDFProcessor instance, or NoProcessor
    init_error,         \* the exception PDFProcessor(...) raised, or "none"
    fs,                 \* path -> file
    dirs,               \* the directories that exist
    pc,                 \* where process_pdf is
    pdf_path,           \* its argument
    metadata,           \* its locals
    pages,
    all_text,
    chunks,
    people_mentioned,
    result,             \* the dictionary it returned
    raised,             \* the exception that left it, or "none"
    steps,              \* the stages of this call that ran
    save_call,          \* the last call of save_to_json
    raw_text,           \* the argument of clean_text
    cleaned,            \* the texts clean_text returned, in call order
    clean_pc,
    index,              \* the Pinecone index: record id -> record
    upserts,            \* document -> its call of upsert_documents
    processing_status,  \* doc_id -> ProcessingStatus
    status_log,         \* doc_id -> the statuses assigned to it, in order
    uploads,            \* doc_id -> what upload_document left of its file
    tasks,              \* doc_id -> how its process_document task ended
    responses           \* what the handlers answered, in order

saveVars == <<save_call>>
cleanVars == <<raw_text, cleaned, clean_pc>>
storeVars == <<index, upserts>>
routeVars == <<processing_status, status_log, uploads, tasks, responses>>

vars == <<processor, init_error, fs, dirs, pc, pdf_path, metadata, pages,
          all_text, chunks, people_mentioned, result, raised, steps,
          save_call, raw_text, cleaned, clean_pc, index, upserts,
          processing_status, status_log, uploads, tasks, responses>>

InitWith(documents) ==
    /\ processor = NoProcessor
    /\ init_error = "none"
    /\ \E doc \in documents :
          fs = [p \in Paths |-> IF p = PdfPath THEN doc ELSE Absent]
    /\ dirs = {"."}
    /\ pc = "idle"
    /\ pdf_path = ""
    /\ metadata = None
    /\ pages = <<>>
    /\ all_text = <<>>
    /\ chunks = <<>>
    /\ people_mentioned = {}
    /\ result = None
    /\ raised = "none"
    /\ steps = {}
    /\ save_call = NoSave

InitClean(texts) ==
    /\ raw_text \in texts
    /\ cleaned = <<>>
    /\ clean_pc = "raw"

\* an empty index and no call of upsert_documents yet
InitStore ==
    /\ index = [id \in {} |-> None]
    /\ upserts = [d \in DocumentNames |-> NoUpsert]

\* processing_status = {} (line 14), nothing uploaded, nothing answered
InitRoutes ==
    /\ processing_status = [id \in {} |-> None]
    /\ status_log = [id \in DocIds |-> <<>>]
    /\ uploads = [id \in {} |-> None]
    /\ tasks = [id \in {} |-> None]
    /\ responses = <<>>

Init ==
    /\ InitWith(TextDocuments \cup CorruptPdfs)
    /\ InitClean({<<>>})
    /\ InitStore
    /\ InitRoutes

\* PDFProcessor(chunk_size, chunk_overlap, separators)
Construct(chunk_size, chunk_overlap, separators) ==
    /\ processor = NoProcessor
    /\ init_error = "none"
    /\ IF SplitterRejects(chunk_size, chunk_overlap)
       THEN /\ init_error' = "ValueError"
            /\ UNCHANGED processor
       ELSE /\ processor' = NewProcessor(chunk_size, chunk_overlap, separators)
            /\ UNCHANGED init_error
    /\ UNCHANGED <<fs, dirs, pc, pdf_path, metadata, pages, all_text, chunks,
                   people_mentioned, result, raised, steps>>
    /\ UNCHANGED <<saveVars, cleanVars, storeVars, routeVars>>

(***************************************************************************)
(* PDFProcessor.extract_detailed_metadata                                  *)
(***************************************************************************)
\* str.lower() of the keys the info dictionaries use
LowerKey(k) ==
    CASE k = "CreationDate" -> "creationdate"
      [] k = "ModDate" -> "moddate"
      [] k = "Title" -> "title"
      [] k = "Pages" -> "pages"
      [] k = "Trapped" -> "trapped"
      [] OTHER -> k

\* value.decode('utf-8', errors='ignore') for bytes, the value itself otherwise
DecodeValue(value) == IF value.type = "bytes" THEN PyStr(value.val) ELSE value

\* key.decode('utf-8') raises for a key that is no bytes object; the except
\* clause logs it and the entry is dropped
KeyDecodes(entry) == entry.key_type = "bytes"

\* dict.get(key, default)
Get(d, key, default) == IF key \in DOMAIN d THEN d[key] ELSE default

RECURSIVE InfoMetadata(_)
\* the loop over doc.info[0].items(); a later entry overwrites an earlier one
InfoMetadata(info) ==
    IF info = <<>> THEN [k \in {} |-> None]
    ELSE LET rest == InfoMetadata(SubSeq(info, 1, Len(info) - 1))
             e == info[Len(info)]
         IN  IF KeyDecodes(e)
             THEN (LowerKey(e.key) :> DecodeValue(e.value)) @@ rest
             ELSE rest

ExtractDetailedMetadata(path, doc) ==
    LET md == InfoMetadata(doc.info)
    IN  [k \in {"page_count", "file_name", "file_size", "created_date",
                "modified_date"} |->
            CASE k = "page_count" -> PyInt(Len(doc.pages))
              [] k = "file_name" -> PyStr(path)
              [] k = "file_size" -> PyInt(doc.size)
              [] k = "created_date" -> Get(md, "creationdate", PyStr(""))
              [] k = "modified_date" -> Get(md, "moddate", PyStr(""))] @@ md

(***************************************************************************)
(* PDFProcessor.extract_people_names                                       *)
(***************************************************************************)
MaxNames == 1

\* the spans of whole tokens of the text: what an entity's text can be
TokenSpans(text) ==
    LET starts == {i \in 1..Len(text) :
                      ~IsSpace(text[i]) /\ (i = 1 \/ IsSpace(text[i - 1]))}
        ends == {j \in 1..Len(text) :
                      ~IsSpace(text[j]) /\ (j = Len(text) \/ IsSpace(text[j + 1]))}
    IN  {SubSeq(text, ij[1], ij[2]) :
            ij \in {p \in starts \X ends : p[1] <= p[2]}}

\* the sets extract_people_names may return: the lowercased text of the
\* entities the model labels PERSON, whichever those are
PersonNameSets(text) ==
    {{Lower(sp) : sp \in S} :
        S \in {T \in SUBSET TokenSpans(text) : Cardinality(T) <= MaxNames}}

\* the order in which a set is iterated
RECURSIVE SetToSeq(_)
SetToSeq(S) ==
    IF S = {} THEN <<>>
    ELSE LET x == CHOOSE y \in S : TRUE IN <<x>> \o SetToSeq(S \ {x})

(***************************************************************************)
(* PDFProcessor.process_pdf: the result dictionary                         *)
(***************************************************************************)
\* the averages guarded against an empty chunk list
AverageGuarded(cs) == FALSE

\* sum(...) / len(chunks) divides by zero when there is no chunk
AverageRaises(cs) == Len(cs) = 0

\* i // (len(chunks) // len(pages)) + 1 divides by zero when there are
\* fewer chunks than pages
PageNumberRaises(cs, ps) == Len(cs) > 0 /\ Len(cs) \div Len(ps) = 0

PageNumber(i, total_chunks, total_pages) ==
    i \div (total_chunks \div total_pages) + 1

\* the comparison off by one: the last chunk is given the overlap too
OverlapWithNextAlways(proc, i, total_chunks) ==
    IF i < total_chunks THEN proc.chunk_overlap ELSE 0

OverlapWithNext(proc, i, total_chunks) ==
    IF i < total_chunks - 1 THEN proc.chunk_overlap ELSE 0

\* the names of the document that occur in the chunk, case-insensitively
PeopleInChunk(names, content) ==
    SelectSeq(SetToSeq(names), LAMBDA name : Contains(Lower(content), Lower(name)))

RECURSIVE SumWords(_)
SumWords(cs) == IF cs = <<>> THEN 0 ELSE WordCount(Head(cs)) + SumWords(Tail(cs))

\* the identifiers counted from one
ChunkIdFromOne(i) == <<"chunk_", i + 1>>

\* f"chunk_{i}"
ChunkId(i) == <<"chunk_", i>>

\* the chunk with index i (from 0)
ChunkRecord(proc, cs, ps, names, i) ==
    LET content == cs[i + 1]
    IN  [content |-> content,
         chunk_metadata |->
            [chunk_id |-> ChunkId(i),
             page_number |-> PageNumber(i, Len(cs), Len(ps)),
             word_count |-> WordCount(content),
             char_count |-> Len(content),
             chunk_position |-> [index |-> i, total_chunks |-> Len(cs)],
             people_mentioned |-> PeopleInChunk(names, content),
             chunk_size_bytes |-> Len(content),
             overlap_with_next |-> OverlapWithNext(proc, i, Len(cs)),
             processing_info |-> [chunk_method |-> "recursive_character",
                                  chunk_size |-> proc.chunk_size,
                                  chunk_overlap |-> proc.chunk_overlap]],
         chunk_id |-> ChunkId(i),
         word_count |-> WordCount(content),
         char_count |-> Len(content)]

BuildResult(proc, path, md, ps, cs, names) ==
    [metadata |->
        [k \in {"total_word_count", "total_char_count", "average_chunk_size",
                "language_detected", "processing_timestamp",
                "total_people_mentioned", "document_statistics"} |->
            CASE k = "total_word_count" -> PyInt(SumWords(cs))
              [] k = "total_char_count" -> PyInt(SumLen(cs))
              [] k = "average_chunk_size" -> PyFloat(SumLen(cs), Len(cs))
              [] k = "language_detected" -> PyStr("en")
              [] k = "processing_timestamp" -> PyStr("now")
              [] k = "total_people_mentioned" -> PyInt(Cardinality(names))
              [] k = "document_statistics" ->
                    [type |-> "dict",
                     val |-> [pages |-> Len(ps), chunks |-> Len(cs),
                              file_size_bytes |-> md["file_size"].val,
                              avg_words_per_chunk |-> PyFloat(SumWords(cs), Len(cs))]]]
        @@ md,
     chunks |-> [k \in 1..Len(cs) |-> ChunkRecord(proc, cs, ps, names, k - 1)],
     document_info |->
        [total_pages |-> Len(ps), filename |-> path, total_chunks |-> Len(cs),
         file_size_bytes |-> md["file_size"].val,
         created_date |-> Get(md, "created_date", PyStr("")),
         modified_date |-> Get(md, "modified_date", PyStr(""))],
     people_mentioned |-> SetToSeq(names),
     processing_info |->
        [chunk_size |-> proc.chunk_size, chunk_overlap |-> proc.chunk_overlap,
         processing_date |-> "now", processor_version |-> "1.0.0"]]

\* the not-found error caught by the general clause and wrapped
HandledAsValueError(exception, message) ==
    IF exception = "FileNotFoundError"
          \/ message \in {"EOF marker not found", "syntax error"}
    THEN "ValueError"
    ELSE exception

\* the except clauses of process_pdf: FileNotFoundError is re-raised; an
\* exception whose message tells of a broken file becomes a ValueError;
\* any other is re-raised
Handled(exception, message) ==
    IF exception = "FileNotFoundError" THEN exception
    ELSE IF message \in {"EOF marker not found", "syntax error"} THEN "ValueError"
    ELSE exception

(***************************************************************************)
(* PDFProcessor.process_pdf, stage by stage                                *)
(***************************************************************************)
Raise(exception, message) ==
    /\ raised' = Handled(exception, message)
    /\ pc' = "raised"

\* processor.process_pdf(path)
ProcessPdf(path) ==
    /\ processor # NoProcessor
    /\ pc = "idle"
    /\ pdf_path' = path
    /\ pc' = "exists"
    /\ UNCHANGED <<processor, init_error, fs, dirs, metadata, pages, all_text,
                   chunks, people_mentioned, result, raised, steps>>
    /\ UNCHANGED <<saveVars, cleanVars, storeVars, routeVars>>

\* if not pdf_path.exists(): raise FileNotFoundError
CheckExists ==
    /\ pc = "exists"
    /\ steps' = steps \cup {"exists"}
    /\ IF fs[pdf_path] = Absent
       THEN Raise("FileNotFoundError", "PDF file not found")
       ELSE pc' = "metadata" /\ UNCHANGED raised
    /\ UNCHANGED <<processor, init_error, fs, dirs, pdf_path, metadata, pages,
                   all_text, chunks, people_mentioned, result>>
    /\ UNCHANGED <<saveVars, cleanVars, storeVars, routeVars>>

\* metadata = self.extract_detailed_metadata(pdf_path)
ExtractMetadata ==
    /\ pc = "metadata"
    /\ steps' = steps \cup {"metadata"}
    /\ IF fs[pdf_path].fails_at = "metadata"
       THEN Raise("PDFSyntaxError", fs[pdf_path].message) /\ UNCHANGED metadata
       ELSE /\ metadata' = ExtractDetailedMetadata(pdf_path, fs[pdf_path])
            /\ pc' = "load"
            /\ UNCHANGED raised
    /\ UNCHANGED <<processor, init_error, fs, dirs, pdf_path, pages, all_text,
                   chunks, people_mentioned, result>>
    /\ UNCHANGED <<saveVars, cleanVars, storeVars, routeVars>>

\* pages = PyPDFLoader(str(pdf_path)).load()
LoadPages ==
    /\ pc = "load"
    /\ steps' = steps \cup {"load"}
    /\ IF fs[pdf_path].fails_at = "load"
       THEN Raise("PdfReadError", fs[pdf_path].message) /\ UNCHANGED pages
       ELSE /\ pages' = fs[pdf_path].pages
            /\ pc' = "split"
            /\ UNCHANGED raised
    /\ UNCHANGED <<processor, init_error, fs, dirs, pdf_path, metadata, all_text,
                   chunks, people_mentioned, result>>
    /\ UNCHANGED <<saveVars, cleanVars, storeVars, routeVars>>

\* all_text = "\n".join(...); chunks = self.text_splitter.create_documents(...)
SplitPages ==
    /\ pc = "split"
    /\ steps' = steps \cup {"split"}
    /\ all_text' = Join(pages, <<"\n">>)
    /\ chunks' = CreateDocuments(processor, all_text')
    /\ pc' = "names"
    /\ UNCHANGED <<processor, init_error, fs, dirs, pdf_path, metadata, pages,
                   people_mentioned, result, raised>>
    /\ UNCHANGED <<saveVars, cleanVars, storeVars, routeVars>>

\* people_mentioned = self.extract_people_names(all_text)
ExtractPeopleNames ==
    /\ pc = "names"
    /\ steps' = steps \cup {"names"}
    /\ people_mentioned' \in PersonNameSets(all_text)
    /\ pc' = "assemble"
    /\ UNCHANGED <<processor, init_error, fs, dirs, pdf_path, metadata, pages,
                   all_text, chunks, result, raised>>
    /\ UNCHANGED <<saveVars, cleanVars, storeVars, routeVars>>

\* document_info = ...; result = ...; return result
Assemble ==
    /\ pc = "assemble"
    /\ steps' = steps \cup {"assemble"}
    /\ IF AverageRaises(chunks) \/ PageNumberRaises(chunks, pages)
       THEN Raise("ZeroDivisionError", "division by zero") /\ UNCHANGED result
       ELSE /\ result' = BuildResult(processor, pdf_path, metadata, pages, chunks,
                                     people_mentioned)
            /\ pc' = "returned"
            /\ UNCHANGED raised
    /\ UNCHANGED <<processor, init_error, fs, dirs, pdf_path, metadata, pages,
                   all_text, chunks, people_mentioned>>
    /\ UNCHANGED <<saveVars, cleanVars, storeVars, routeVars>>

Next ==
    \/ \E cs \in 1..MaxChunkSize, co \in 0..(MaxChunkSize + 1),
          seps \in SeparatorLists : Construct(cs, co, seps)
    \/ \E path \in {PdfPath, MissingPath} : ProcessPdf(path)
    \/ CheckExists
    \/ ExtractMetadata
    \/ LoadPages
    \/ SplitPages
    \/ ExtractPeopleNames
    \/ Assemble

Spec == Init /\ [][Next]_vars

(***************************************************************************)
(* Saving results: process_pdf on documents that differ in their info      *)
(* dictionary, then save_to_json of the result, or of the result without   *)
(* one of its top-level keys.                                              *)
(***************************************************************************)
Without(data, key) == [k \in DOMAIN data \ {key} |-> data[k]]

\* processor.save_to_json(data, output_path)
SaveToJson(data, output_path) ==
    /\ pc = "returned"
    /\ LET out == SaveOutcome(data, output_path, fs, dirs)
       IN  /\ fs' = out.fs
           /\ dirs' = out.dirs
           /\ save_call' = [called |-> TRUE, data |-> data, path |-> output_path,
                            before |-> fs[output_path], raised |-> out.raised]
    /\ UNCHANGED <<processor, init_error, pc, pdf_path, metadata, pages,
                   all_text, chunks, people_mentioned, result, raised, steps>>
    /\ UNCHANGED <<cleanVars, storeVars, routeVars>>

InitSave == InitWith(InfoDocuments) /\ InitClean({<<>>}) /\ InitStore /\ InitRoutes

NextSave ==
    \/ Next
    \/ \E output_path \in {OutputPath, InvalidOutputPath} :
          \/ SaveToJson(result, output_path)
          \/ \E key \in RequiredKeys : SaveToJson(Without(result, key), output_path)

SpecSave == InitSave /\ [][NextSave]_vars

(***************************************************************************)
(* clean_text applied to a raw text, and again to what it returned.        *)
(***************************************************************************)
pipelineVars == <<processor, init_error, fs, dirs, pc, pdf_path, metadata, pages,
                  all_text, chunks, people_mentioned, result, raised, steps>>

\* cleaned = clean_text(raw_text)
CleanText ==
    /\ clean_pc = "raw"
    /\ cleaned' = <<clean_text(raw_text)>>
    /\ clean_pc' = "cleaned"
    /\ UNCHANGED <<raw_text, pipelineVars, saveVars, storeVars, routeVars>>

\* clean_text(cleaned)
CleanAgain ==
    /\ clean_pc = "cleaned"
    /\ cleaned' = Append(cleaned, clean_text(cleaned[1]))
    /\ clean_pc' = "recleaned"
    /\ UNCHANGED <<raw_text, pipelineVars, saveVars, storeVars, routeVars>>

InitText ==
    /\ InitWith({Pdf(NoInfo, <<>>)})
    /\ InitClean(RawTexts(MaxCleanLen))
    /\ InitStore
    /\ InitRoutes

NextClean == CleanText \/ CleanAgain

SpecClean == InitText /\ [][NextClean]_vars

(***************************************************************************)
(* VectorStore.upsert_documents: the chunks of a document are sent to the  *)
(* index in batches.  A document is the list of its langchain Document     *)
(* objects; the text of the k-th one is written <<d, k>>.                  *)
(***************************************************************************)
MaxDocuments == 201

\* batch_size = 100
batch_size == 100

\* the lengths of the lists upsert_documents is called with
DocumentCounts ==
    {n \in {0, 1, batch_size - 1, batch_size, batch_size + 1, 2 * batch_size,
            MaxDocuments} : n <= MaxDocuments}

\* the Document objects of document d
Documents(d, n) ==
    [k \in 1..n |-> [page_content |-> <<d, k>>, metadata |-> [source |-> d]]]

\* f"doc_{i}"
VectorId(i) == <<"doc_", i>>

\* the loop over enumerate(documents) that fills vectors
Vectors(documents) ==
    [k \in 1..Len(documents) |->
        [id |-> VectorId(k - 1),
         text |-> documents[k].page_content,
         metadata |-> [source |-> documents[k].metadata.source,
                       chunk_id |-> k - 1]]]

\* a slice one record longer than batch_size
BatchWithNext(vectors, i) ==
    SubSeq(vectors, i + 1, IF i + batch_size + 1 < Len(vectors)
                           THEN i + batch_size + 1 ELSE Len(vectors))

\* vectors[i:i + batch_size]
Batch(vectors, i) ==
    SubSeq(vectors, i + 1, IF i + batch_size < Len(vectors)
                           THEN i + batch_size ELSE Len(vectors))

\* index.upsert(vectors=batch): a record replaces the one with its id
Upserted(idx, batch) ==
    LET ids == {batch[k].id : k \in 1..Len(batch)}
    IN  [id \in DOMAIN idx \cup ids |->
            IF id \in ids
            THEN batch[CHOOSE k \in 1..Len(batch) : batch[k].id = id]
            ELSE idx[id]]

\* await vector_store.upsert_documents(documents) is entered; the coroutine
\* awaits nothing, so no other call is under way on the event loop
UpsertStart(d, n) ==
    /\ upserts[d].pc = "idle"
    /\ \A e \in DocumentNames : upserts[e].pc # "running"
    /\ upserts' = [upserts EXCEPT ![d] =
                      [pc |-> "running",
                       documents |-> Documents(d, n),
                       vectors |-> Vectors(Documents(d, n)),
                       i |-> 0,
                       sent |-> <<>>,
                       returned |-> None,
                       raised |-> "none"]]
    /\ UNCHANGED <<index, pipelineVars, saveVars, cleanVars, routeVars>>

\* one round of the batch loop whose index.upsert succeeds
UpsertBatch(d) ==
    /\ upserts[d].pc = "running"
    /\ upserts[d].i < Len(upserts[d].vectors)
    /\ LET batch == Batch(upserts[d].vectors, upserts[d].i)
       IN  /\ index' = Upserted(index, batch)
           /\ upserts' = [upserts EXCEPT
                  ![d].sent = Append(@, [batch |-> batch, outcome |-> "ok"]),
                  ![d].i = @ + batch_size]
    /\ UNCHANGED <<pipelineVars, saveVars, cleanVars, routeVars>>

\* one round of the batch loop whose index.upsert raises: the error is
\* printed and raised again; the service may or may not have stored the batch
UpsertBatchFails(d) ==
    /\ upserts[d].pc = "running"
    /\ upserts[d].i < Len(upserts[d].vectors)
    /\ LET batch == Batch(upserts[d].vectors, upserts[d].i)
       IN  /\ index' \in {index, Upserted(index, batch)}
           /\ upserts' = [upserts EXCEPT
                  ![d].sent = Append(@, [batch |-> batch, outcome |-> "error"]),
                  ![d].pc = "raised",
                  ![d].raised = <<"PineconeException", upserts[d].i \div batch_size>>]
    /\ UNCHANGED <<pipelineVars, saveVars, cleanVars, routeVars>>

\* the loop is over: return {"status": "success", "documents_processed": ...}
UpsertReturn(d) ==
    /\ upserts[d].pc = "running"
    /\ upserts[d].i >= Len(upserts[d].vectors)
    /\ upserts' = [upserts EXCEPT
           ![d].pc = "returned",
           ![d].returned = [status |-> "success",
                            documents_processed |-> Len(upserts[d].documents)]]
    /\ UNCHANGED <<index, pipelineVars, saveVars, cleanVars, routeVars>>

InitUpsert ==
    /\ InitWith({Pdf(NoInfo, <<>>)})
    /\ InitClean({<<>>})
    /\ InitStore
    /\ InitRoutes

NextStore ==
    \E d \in DocumentNames :
        \/ \E n \in DocumentCounts : UpsertStart(d, n)
        \/ UpsertBatch(d)
        \/ UpsertBatchFails(d)
        \/ UpsertReturn(d)

SpecStore == InitUpsert /\ [][NextStore]_vars

(***************************************************************************)
(* The upload routes: upload_document, the process_document task and       *)
(* get_processing_status.  None of the three coroutines is suspended       *)
(* between its first and its last statement, so each is one step.          *)
(***************************************************************************)
MaxRequests == 3

\* class ProcessingStatus
PENDING == "pending"
PROCESSING == "processing"
COMPLETED == "completed"
FAILED == "failed"

\* the names of the files sent to /upload
Filenames == {<<"a", ".", "p", "d", "f">>, <<"a", ".", "P", "D", "F">>,
              <<"a", ".", "t", "x", "t">>, <<"p", "d", "f">>}

\* s.endswith(suffix)
EndsWith(s, suffix) ==
    /\ Len(s) >= Len(suffix)
    /\ SubSeq(s, Len(s) - Len(suffix) + 1, Len(s)) = suffix

\* the Settings object get_settings() provides
Settings == [type |-> "Settings", CHUNK_SIZE |-> 1000, CHUNK_OVERLAP |-> 200]

\* chunk_overlap: int = 200
DefaultChunkOverlap == 200

\* the order comparison of the splitter's constructor, which Python defines
\* between two numbers only
Comparable(value) == value.type \in {"int", "float"}

\* what PDFProcessor(chunk_size, chunk_overlap) does: "ok" or the exception
ConstructorOutcome(chunk_size, chunk_overlap) ==
    IF ~Comparable(chunk_size) \/ ~Comparable(chunk_overlap) THEN "TypeError"
    ELSE IF SplitterRejects(chunk_size.val, chunk_overlap.val) THEN "ValueError"
    ELSE "ok"

\* what process_pdf gives back to the expression that called it
ProcessPdfReturn == [type |-> "dict"]

\* whether await accepts the value
Awaitable(value) == value.type \in {"coroutine", "task", "future"}

\* d[key] = value
SetItem(d, key, value) ==
    [k \in DOMAIN d \cup {key} |-> IF k = key THEN value ELSE d[k]]

\* processing_status[doc_id] = status, and the record of it
SetStatus(ps, log, doc_id, status) ==
    [processing_status |-> SetItem(ps, doc_id, status),
     status_log |-> [log EXCEPT ![doc_id] = Append(@, status)]]

\* the identifiers not seen so far: uuid4 repeats none
Fresh == DocIds \ (DOMAIN uploads \cup DOMAIN processing_status)

\* POST /upload
upload_document(filename, doc_id) ==
    /\ Len(responses) < MaxRequests
    /\ doc_id \in Fresh
    /\ IF ~EndsWith(filename, <<".", "p", "d", "f">>)
       THEN /\ responses' = Append(responses,
                   [handler |-> "upload", status_code |-> 400,
                    detail |-> "Only PDF files are allowed"])
            /\ UNCHANGED <<processing_status, status_log, uploads, tasks>>
       ELSE \E copied \in BOOLEAN :
            IF ~copied
            THEN /\ uploads' = SetItem(uploads, doc_id, "unsaved")
                 /\ responses' = Append(responses,
                        [handler |-> "upload", status_code |-> 500,
                         detail |-> "Error saving file", id |-> doc_id])
                 /\ UNCHANGED <<processing_status, status_log, tasks>>
            ELSE /\ uploads' = SetItem(uploads, doc_id, "saved")
                 /\ LET built == ConstructorOutcome(Settings, PyInt(DefaultChunkOverlap))
                    IN  IF built # "ok"
                        THEN /\ responses' = Append(responses,
                                    [handler |-> "upload", status_code |-> 500,
                                     detail |-> built, id |-> doc_id])
                             /\ UNCHANGED <<processing_status, status_log, tasks>>
                        ELSE LET set == SetStatus(processing_status, status_log,
                                                  doc_id, PENDING)
                             IN  /\ processing_status' = set.processing_status
                                 /\ status_log' = set.status_log
                                 /\ tasks' = SetItem(tasks, doc_id, [pc |-> "queued"])
                                 /\ responses' = Append(responses,
                                        [handler |-> "upload", status_code |-> 200,
                                         id |-> doc_id, status |-> PENDING,
                                         document_name |-> filename])
    /\ UNCHANGED <<pipelineVars, saveVars, cleanVars, storeVars>>

\* the coroutine process_document(file_path, doc_id, pdf_processor,
\* vector_store), run as the queued background task or called with a
\* processor of its own; once for a doc_id
process_document(doc_id, process_pdf_raises, upsert_raises) ==
    /\ IF doc_id \in DOMAIN tasks THEN tasks[doc_id].pc = "queued" ELSE TRUE
    /\ IF doc_id \in DOMAIN uploads /\ uploads[doc_id] = "saved"
       THEN TRUE
       ELSE process_pdf_raises
    /\ LET started == SetStatus(processing_status, status_log, doc_id, PROCESSING)
           error == IF process_pdf_raises THEN "process_pdf"
                    ELSE IF ~Awaitable(ProcessPdfReturn) THEN "TypeError"
                    ELSE IF upsert_raises THEN "upsert_documents"
                    ELSE "none"
           ended == SetStatus(started.processing_status, started.status_log, doc_id,
                              IF error = "none" THEN COMPLETED ELSE FAILED)
       IN  /\ processing_status' = ended.processing_status
           /\ status_log' = ended.status_log
           /\ tasks' = SetItem(tasks, doc_id,
                  [pc |-> "ended", raised |-> error,
                   process_pdf |-> IF process_pdf_raises THEN "raised" ELSE "returned",
                   upsert |-> IF error \in {"process_pdf", "TypeError"} THEN "not called"
                              ELSE IF upsert_raises THEN "raised" ELSE "returned"])
    /\ UNCHANGED <<uploads, responses>>
    /\ UNCHANGED <<pipelineVars, saveVars, cleanVars, storeVars>>

\* GET /status/{doc_id}
get_processing_status(doc_id) ==
    /\ Len(responses) < MaxRequests
    /\ responses' = Append(responses,
           IF doc_id \notin DOMAIN processing_status
           THEN [handler |-> "status", status_code |-> 404,
                 detail |-> "Document not found"]
           ELSE [handler |-> "status", status_code |-> 200,
                 status |-> processing_status[doc_id]])
    /\ UNCHANGED <<processing_status, status_log, uploads, tasks>>
    /\ UNCHANGED <<pipelineVars, saveVars, cleanVars, storeVars>>

NextRoutes ==
    \E doc_id \in DocIds :
        \/ \E filename \in Filenames : upload_document(filename, doc_id)
        \/ \E process_pdf_raises \in BOOLEAN, upsert_raises \in BOOLEAN :
              process_document(doc_id, process_pdf_raises, upsert_raises)
        \/ get_processing_status(doc_id)

SpecRoutes == InitUpsert /\ [][NextRoutes]_vars

(***************************************************************************)
(* Properties of the chunks.                                               *)
(***************************************************************************)
Min(a, b) == IF a <= b THEN a ELSE b
Max(a, b) == IF a >= b THEN a ELSE b

(***************************************************************************)
(* Properties of clean_text and save_to_json.                              *)
(***************************************************************************)
\* C3 as stated: clean_text is idempotent, clean_text(clean_text(t)) is
\* clean_text(t) for every text t.
C3_CleanTextIdempotent ==
    clean_pc = "recleaned" => cleaned[2] = cleaned[1]

IsResult(data) == RequiredKeys \subseteq DOMAIN data

\* C4 as stated: saving a result of process_pdf to a writable path succeeds
\* and the file read back as JSON equals the result.
C4_SaveRoundTrip ==
    (save_call.called /\ save_call.path = OutputPath /\ save_call.data = result)
    => /\ save_call.raised = "none"
       /\ fs[OutputPath].kind = "json"
       /\ JsonLoad(fs[OutputPath].text) = result

\* C5: save_to_json of a mapping that lacks one of the five top-level keys
\* raises, and the file at output_path is what it was before the call:
\* neither created nor overwritten.
C5_MissingKeyRejected ==
    (save_call.called /\ ~IsResult(save_call.data))
    => /\ save_call.raised # "none"
       /\ fs[save_call.path] = save_call.before

\* a result was saved, then a mapping without one key was refused for the
\* same path, and the saved file is still there
C5_Witness ==
    /\ save_call.called
    /\ ~IsResult(save_call.data)
    /\ save_call.path = OutputPath
    /\ save_call.raised = "ValueError"
    /\ save_call.before.kind = "json"
    /\ fs[OutputPath] = save_call.before

HasSplit == "split" \in steps

EndsInEmptySeparator(separators) == separators[Len(separators)] = <<>>

\* C1: with chunk_overlap < chunk_size and a separator list that ends in the
\* empty string, every chunk the splitter produced inside process_pdf is at
\* most chunk_size + chunk_overlap characters long.
C1_ChunkLengthBound ==
    (/\ HasSplit
     /\ processor.chunk_overlap < processor.chunk_size
     /\ EndsInEmptySeparator(processor.separators))
    => \A k \in 1..Len(chunks) :
          Len(chunks[k]) <= processor.chunk_size + processor.chunk_overlap

\* a text longer than the chunk size was cut into several chunks, one of
\* them as long as the chunk size, under a non-zero overlap
C1_Witness ==
    /\ HasSplit
    /\ processor.chunk_overlap < processor.chunk_size
    /\ processor.chunk_overlap > 0
    /\ EndsInEmptySeparator(processor.separators)
    /\ Len(all_text) > processor.chunk_size
    /\ Len(chunks) >= 2
    /\ \E k \in 1..Len(chunks) : Len(chunks[k]) = processor.chunk_size

\* the length of the longest prefix of cur that is a suffix of prev
SharedLen(prev, cur) ==
    LET fits == {n \in 0..Min(Len(prev), Len(cur)) :
                    SubSeq(prev, Len(prev) - n + 1, Len(prev)) = SubSeq(cur, 1, n)}
    IN  CHOOSE n \in fits : \A m \in fits : m <= n

RECURSIVE Reconstruct(_, _)
\* chunk k.. appended, each without the prefix it shares with the tail of
\* the chunk before it
Reconstruct(cs, k) ==
    IF k > Len(cs) THEN <<>>
    ELSE (IF k = 1 THEN cs[k]
          ELSE SubSeq(cs[k], SharedLen(cs[k - 1], cs[k]) + 1, Len(cs[k])))
         \o Reconstruct(cs, k + 1)

\* C2 as stated: the chunks, each without the prefix shared with its
\* predecessor, concatenate to the joined page text exactly.
C2_ExactReconstruction ==
    (HasSplit /\ processor.chunk_overlap < processor.chunk_size)
    => Reconstruct(chunks, 1) = all_text

RECURSIVE SlicesCover(_, _, _, _, _)
\* chunks k.. are slices of the text that start at or after position from,
\* in order, and every character after position covered that lies in none
\* of them is whitespace
SlicesCover(text, cs, k, from, covered) ==
    IF k > Len(cs)
    THEN \A i \in (covered + 1)..Len(text) : IsSpace(text[i])
    ELSE \E p \in from..(Len(text) - Len(cs[k]) + 1) :
            /\ MatchAt(text, cs[k], p)
            /\ \A i \in (covered + 1)..(p - 1) : IsSpace(text[i])
            /\ SlicesCover(text, cs, k + 1, p, Max(covered, p + Len(cs[k]) - 1))

\* C2 amended: the chunks are slices of the joined page text, in text order,
\* and together they hold every character of it that is not whitespace: the
\* text is reconstructed except for whitespace at the chunk boundaries.
C2_ReconstructionUpToWhitespace ==
    (HasSplit /\ processor.chunk_overlap < processor.chunk_size)
    => SlicesCover(all_text, chunks, 1, 1, 0)

\* two chunks that overlap, cut from a text that lost a blank between chunks
C2_Witness ==
    /\ HasSplit
    /\ processor.chunk_overlap < processor.chunk_size
    /\ processor.separators = DefaultSeparators
    /\ processor.chunk_overlap > 0
    /\ Len(chunks) >= 2
    /\ \E k \in 1..(Len(chunks) - 1) : SharedLen(chunks[k], chunks[k + 1]) > 0
    /\ \E i \in 2..(Len(all_text) - 1) : IsSpace(all_text[i])
    /\ Reconstruct(chunks, 1) # all_text

(***************************************************************************)
(* Properties of construction and of process_pdf.                          *)
(***************************************************************************)
\* C6 as stated: a PDFProcessor whose chunk_overlap is not smaller than its
\* chunk_size is never constructed, so none reaches process_pdf.
C6_OverlapBelowChunkSize ==
    processor # NoProcessor => processor.chunk_overlap < processor.chunk_size

\* C7: process_pdf on a path that names no file raises FileNotFoundError,
\* unchanged, right after the existence check: no metadata extraction, page
\* loading, splitting or entity extraction has run.
C7_MissingFileRaisesFirst ==
    (pc # "idle" /\ fs[pdf_path] = Absent)
    => /\ pc \in {"exists", "raised"}
       /\ steps \subseteq {"exists"}
       /\ pc = "raised" => raised = "FileNotFoundError"
       /\ metadata = None /\ chunks = <<>> /\ result = None

\* process_pdf on the missing path has raised
C7_Witness ==
    /\ pdf_path = MissingPath
    /\ fs[pdf_path] = Absent
    /\ pc = "raised"
    /\ raised = "FileNotFoundError"

\* floor(i / (total_chunks / total_pages)) + 1, clamped to total_pages
ProportionalPage(i, total_chunks, total_pages) ==
    Min((i * total_pages) \div total_chunks + 1, total_pages)

\* C8 as stated: with at least one page and one chunk, building the result
\* does not fail and chunk i is given the page
\* floor(i / (total_chunks / total_pages)) + 1 clamped to total_pages, which
\* lies in 1..total_pages.
C8_PageNumberProportional ==
    ("assemble" \in steps /\ Len(pages) >= 1 /\ Len(chunks) >= 1)
    => /\ pc = "returned"
       /\ \A k \in 1..Len(result.chunks) :
            LET n == result.chunks[k].chunk_metadata.page_number
            IN  /\ n = ProportionalPage(k - 1, Len(chunks), Len(pages))
                /\ 1 <= n /\ n <= Len(pages)

\* C9: when the splitter yields no chunk process_pdf raises, and every
\* result it returns holds at least one chunk.
C9_NoEmptyResult ==
    /\ ("assemble" \in steps /\ Len(chunks) = 0)
            => (pc = "raised" /\ raised = "ZeroDivisionError" /\ result = None)
    /\ pc = "returned" => Len(result.chunks) >= 1

\* a document whose pages hold only blanks went through the splitter, gave
\* no chunk, and process_pdf raised
C9_Witness ==
    /\ "assemble" \in steps
    /\ Len(pages) >= 1
    /\ Len(all_text) >= 1
    /\ Len(chunks) = 0
    /\ pc = "raised"

\* C10: overlap_with_next is the configured chunk_overlap for every chunk
\* but the last, and 0 for the last.
C10_OverlapWithNext ==
    pc = "returned"
    => \A k \in 1..Len(result.chunks) :
          result.chunks[k].chunk_metadata.overlap_with_next
            = (IF k < Len(result.chunks) THEN processor.chunk_overlap ELSE 0)

\* the scenario of the overlap clamp: one segment of exactly chunk_size
\* characters, overlap chunk_size - 1, gives one chunk with overlap 0
C10_Witness ==
    /\ pc = "returned"
    /\ processor.chunk_overlap = processor.chunk_size - 1
    /\ processor.chunk_overlap > 0
    /\ Len(all_text) = processor.chunk_size
    /\ \A i \in 1..Len(all_text) : ~IsSpace(all_text[i])
    /\ Len(result.chunks) = 1
    /\ result.chunks[1].chunk_metadata.overlap_with_next = 0

(***************************************************************************)
(* Properties of the chunk records.                                        *)
(***************************************************************************)
RECURSIVE Concat(_)
Concat(ss) == IF ss = <<>> THEN <<>> ELSE Head(ss) \o Concat(Tail(ss))

\* total_text of the integration test: the chunk contents one after another
TotalText(res) == Concat([k \in 1..Len(res.chunks) |-> res.chunks[k].content])

SeqRange(q) == {q[k] : k \in 1..Len(q)}

\* C12 as stated: the people_mentioned of a chunk are exactly the names of
\* the document-level set whose lowercase form occurs in the lowercased
\* chunk, a subset of that set, and every name of the document-level set
\* occurs, case-insensitively, in the concatenation of all chunk contents.
C12_PeopleMentioned ==
    pc = "returned"
    => /\ \A k \in 1..Len(result.chunks) :
            LET rec == result.chunks[k]
                found == SeqRange(rec.chunk_metadata.people_mentioned)
            IN  /\ found = {n \in people_mentioned :
                                Contains(Lower(rec.content), Lower(n))}
                /\ found \subseteq SeqRange(result.people_mentioned)
       /\ \A n \in SeqRange(result.people_mentioned) :
            Contains(Lower(TotalText(result)), Lower(n))

\* C13: the k-th chunk of a result has index k and identifier chunk_k, at
\* the top level and in chunk_metadata, and every count of chunks in the
\* result is the length of the chunk list.
C13_ContiguousIndices ==
    pc = "returned"
    => /\ \A k \in 1..Len(result.chunks) :
            LET rec == result.chunks[k]
            IN  /\ rec.chunk_metadata.chunk_position.index = k - 1
                /\ rec.chunk_id = <<"chunk_", k - 1>>
                /\ rec.chunk_metadata.chunk_id = <<"chunk_", k - 1>>
                /\ rec.chunk_metadata.chunk_position.total_chunks
                        = Len(result.chunks)
       /\ result.document_info.total_chunks = Len(result.chunks)
       /\ result.metadata["document_statistics"].val.chunks = Len(result.chunks)
       /\ Len(result.chunks) = Len(chunks)

\* a result of three chunks or more
C13_Witness ==
    /\ pc = "returned"
    /\ Len(result.chunks) >= 3
    /\ result.chunks[3].chunk_id = <<"chunk_", 2>>

(***************************************************************************)
(* Properties of clean_text on hyphenated line breaks.                     *)
(***************************************************************************)
IsWordString(w) == w # <<>> /\ \A i \in 1..Len(w) : IsWord(w[i])

\* C14 as stated: for non-empty strings w1, w2 of word characters,
\* clean_text(w1 + "-\n" + w2) is w1 + w2.
C14_LineHyphenRejoined ==
    clean_pc # "raw"
    => \A p \in 2..(Len(raw_text) - 2) :
          LET w1 == SubSeq(raw_text, 1, p - 1)
              w2 == SubSeq(raw_text, p + 2, Len(raw_text))
          IN  (/\ raw_text[p] = "-" /\ raw_text[p + 1] = "\n"
               /\ IsWordString(w1) /\ IsWordString(w2))
              => cleaned[1] = w1 \o w2

(***************************************************************************)
(* Properties of upsert_documents.                                         *)
(***************************************************************************)
\* the number of batches of a list of n records
BatchCount(n) == (n + batch_size - 1) \div batch_size

\* C11: what a call has handed to index.upsert so far are the consecutive
\* slices of its input, in order, of 1 to 100 records each, so no record is
\* in two batches; only the last of them can have failed, and then the call
\* raised that error and returned nothing; the call returns the success
\* status with documents_processed = n only when all ceil(n/100) batches
\* were upserted without error.
C11_BatchedUpsert ==
    \A d \in DocumentNames :
        upserts[d].pc # "idle"
        => LET call == upserts[d]
               n == Len(call.documents)
           IN  /\ Len(call.vectors) = n
               /\ Len(call.sent) <= BatchCount(n)
               /\ \A j \in 1..Len(call.sent) :
                     /\ Len(call.sent[j].batch) \in 1..batch_size
                     /\ call.sent[j].batch
                            = SubSeq(call.vectors, (j - 1) * batch_size + 1,
                                     Min(j * batch_size, n))
                     /\ \A k \in 1..Len(call.sent[j].batch) :
                           call.sent[j].batch[k].text
                               = call.documents[(j - 1) * batch_size + k].page_content
                     /\ call.sent[j].outcome = "error"
                            => j = Len(call.sent) /\ call.pc = "raised"
               /\ call.pc = "raised"
                     => /\ call.returned = None
                        /\ call.sent # <<>>
                        /\ call.sent[Len(call.sent)].outcome = "error"
                        /\ call.raised = <<"PineconeException", Len(call.sent) - 1>>
               /\ call.returned # None
                     => /\ call.pc = "returned"
                        /\ call.returned = [status |-> "success",
                                            documents_processed |-> n]
                        /\ Len(call.sent) = BatchCount(n)
                        /\ \A j \in 1..Len(call.sent) : call.sent[j].outcome = "ok"
               /\ call.pc = "returned" => call.returned # None

\* a call with three batches that returned, and one that failed in its
\* second batch of three
C11_Witness ==
    /\ upserts["A"].pc = "returned"
    /\ Len(upserts["A"].sent) = 3
    /\ Len(upserts["A"].sent[3].batch) = 1
    /\ upserts["B"].pc = "raised"
    /\ Len(upserts["B"].vectors) > 2 * batch_size
    /\ Len(upserts["B"].sent) = 2

\* C16 as stated: once upsert_documents has returned its success status for
\* both documents, the index holds one record for every chunk of either.
C16_DocumentsDoNotInterfere ==
    (\A d \in DocumentNames : upserts[d].pc = "returned")
    => /\ \A d \in DocumentNames : \A k \in 1..Len(upserts[d].documents) :
             \E id \in DOMAIN index :
                 index[id].text = upserts[d].documents[k].page_content
       /\ Cardinality(DOMAIN index)
             = Len(upserts["A"].documents) + Len(upserts["B"].documents)

(***************************************************************************)
(* Properties of the status a document has.                                *)
(***************************************************************************)
IsPrefix(p, q) == Len(p) <= Len(q) /\ SubSeq(q, 1, Len(p)) = p

\* C15 as stated: a document that upload_document stored has a status in
\* processing_status; the statuses it was given are the beginning of
\* PENDING, PROCESSING, COMPLETED or of PENDING, PROCESSING, FAILED;
\* COMPLETED only when process_pdf and the upsert returned; FAILED when
\* either raised; a task that ran left COMPLETED or FAILED.
C15_StatusLifecycle ==
    \A doc_id \in DOMAIN uploads :
        uploads[doc_id] = "saved"
        => /\ doc_id \in DOMAIN processing_status
           /\ status_log[doc_id] # <<>>
           /\ processing_status[doc_id] = status_log[doc_id][Len(status_log[doc_id])]
           /\ \E last \in {COMPLETED, FAILED} :
                 IsPrefix(status_log[doc_id], <<PENDING, PROCESSING, last>>)
           /\ processing_status[doc_id] = COMPLETED
                 => /\ doc_id \in DOMAIN tasks
                    /\ tasks[doc_id].pc = "ended"
                    /\ tasks[doc_id].process_pdf = "returned"
                    /\ tasks[doc_id].upsert = "returned"
           /\ (doc_id \in DOMAIN tasks /\ tasks[doc_id].pc = "ended")
                 => /\ processing_status[doc_id] \in {COMPLETED, FAILED}
                    /\ tasks[doc_id].raised # "none"
                          => processing_status[doc_id] = FAILED
====
